---- MODULE Spec2Model ----
(***************************************************************************)
(* Model of app.py, the Flask application of the Zambia Tennis Association *)
(* site: the SQLite store (members, messages), the two form handlers, the  *)
(* events list loaded at import time, the home page previews and the three *)
(* directory-backed galleries.                                             *)
(*                                                                         *)
(* Python strings that the code inspects character by character (form      *)
(* fields, file names, start dates) are sequences of character codes, so   *)
(* that strip(), lower(), endswith(), int() and string comparison are      *)
(* computed as Python computes them.  An optional value is a sequence of   *)
(* length at most one: <<>> is None, <<v>> is the value v.                 *)
(***************************************************************************)
EXTENDS Integers, Sequences, FiniteSets, TLC

VARIABLES
    pc,          \* "boot" before the module is imported and run, "serving" after
    tables,      \* names of the tables that exist in database.db
    members,     \* rows of table members, in insertion order
    messages,    \* rows of table messages, in insertion order
    seqno,       \* sqlite_sequence: last AUTOINCREMENT id handed out per table
    openConns,   \* connections a storage operation opened and did not close
    eventsFile,  \* data/events.json: [state, text]
    EVENTS,      \* the module-level EVENTS list
    dirs,        \* static/images/<category>: [state, names]
    resp         \* the response to the last request

vars == <<pc, tables, members, messages, seqno, openConns,
          eventsFile, EVENTS, dirs, resp>>

\* ------------------------------------------------------------------ bounds
MaxRows == 2
MaxOpenConns == 1
MaxEvents == 7
MaxOddEvents == 2
MaxFiles == 3

\* ----------------------------------------------------------- Python values
None == <<>>
Some(v) == <<v>>

IsSpace(c) == c \in {9, 10, 11, 12, 13, 32}
IsDigit(c) == c >= 48 /\ c <= 57

RECURSIVE lstrip(_)
lstrip(s) ==
    IF s # <<>> /\ IsSpace(Head(s)) THEN lstrip(Tail(s)) ELSE s

RECURSIVE rstrip(_)
rstrip(s) ==
    IF s # <<>> /\ IsSpace(s[Len(s)])
    THEN rstrip(SubSeq(s, 1, Len(s) - 1))
    ELSE s

\* str.strip()
strip(s) == rstrip(lstrip(s))

\* bool(x) for x a str or None as form.get returns it
Truthy(opt) == opt # None /\ opt[1] # <<>>

\* str < str, by code points
RECURSIVE StrLess(_, _)
StrLess(a, b) ==
    IF b = <<>> THEN FALSE
    ELSE IF a = <<>> THEN TRUE
    ELSE IF Head(a) # Head(b) THEN Head(a) < Head(b)
    ELSE StrLess(Tail(a), Tail(b))

\* A Python int has no width: it is its sign and its decimal digits, without
\* leading zeros.
RECURSIVE StripZeros(_)
StripZeros(d) == IF Len(d) > 1 /\ Head(d) = 48 THEN StripZeros(Tail(d)) ELSE d

Integer(neg, d) ==
    [neg |-> neg /\ StripZeros(d) # <<48>>, digits |-> StripZeros(d)]

\* int(s) for a str s: surrounding whitespace is ignored, one sign is
\* allowed, at least one digit is needed; anything else raises ValueError.
\* (Underscores between digits and non-ASCII digits are not modelled.)
int(s) ==
    LET t == strip(s)
        neg == t # <<>> /\ t[1] = 45
        signed == t # <<>> /\ t[1] \in {43, 45}
        d == IF signed THEN Tail(t) ELSE t
    IN  IF d # <<>> /\ \A i \in 1..Len(d) : IsDigit(d[i])
        THEN [raised |-> FALSE, value |-> Integer(neg, d)]
        ELSE [raised |-> TRUE, value |-> Integer(FALSE, <<48>>)]

\* sqlite3 binds a Python int as a signed 64-bit INTEGER and raises
\* OverflowError outside -9223372036854775808 .. 9223372036854775807
FitsInt64(n) ==
    LET limit == <<57, 50, 50, 51, 51, 55, 50, 48, 51, 54, 56, 53, 52, 55, 55,
                   53, 56, 48, IF n.neg THEN 56 ELSE 55>>
    IN  \/ Len(n.digits) < Len(limit)
        \/ Len(n.digits) = Len(limit) /\ ~StrLess(limit, n.digits)

\* ------------------------------------------------------------- the storage
AllTables == {"members", "messages"}

\* CREATE TABLE IF NOT EXISTS members / messages
init_db(t) == t \cup AllTables

\* datetime.utcnow().isoformat(): always a str, whose value no code reads
utcnow_isoformat == "utcnow"

\* The INSERT of insert_member.  c.execute raises when the table is missing
\* (on preparing the statement), when age does not fit an INTEGER (on binding
\* it) or when a NOT NULL column gets None; conn.close() is reached only when
\* it does not raise.
insert_member(data) ==
    IF "members" \notin tables
    THEN [raised |-> TRUE, err |-> "no such table: members",
          rows |-> members, seq |-> seqno["members"], closed |-> FALSE]
    ELSE IF data.age # None /\ ~FitsInt64(data.age[1])
    THEN [raised |-> TRUE,
          err |-> "Python int too large to convert to SQLite INTEGER",
          rows |-> members, seq |-> seqno["members"], closed |-> FALSE]
    ELSE IF data.name = None \/ data.email = None
    THEN [raised |-> TRUE, err |-> "NOT NULL constraint failed",
          rows |-> members, seq |-> seqno["members"], closed |-> FALSE]
    ELSE [raised |-> FALSE, err |-> "",
          rows |-> Append(members,
                     [id |-> seqno["members"] + 1,
                      name |-> data.name, email |-> data.email,
                      phone |-> data.phone, category |-> data.category,
                      address |-> data.address, age |-> data.age,
                      joined_at |-> Some(utcnow_isoformat)]),
          seq |-> seqno["members"] + 1,
          closed |-> TRUE]

\* The INSERT of insert_message, likewise.
insert_message(data) ==
    IF "messages" \notin tables
    THEN [raised |-> TRUE, err |-> "no such table: messages",
          rows |-> messages, seq |-> seqno["messages"], closed |-> FALSE]
    ELSE IF data.name = None \/ data.email = None
    THEN [raised |-> TRUE, err |-> "NOT NULL constraint failed",
          rows |-> messages, seq |-> seqno["messages"], closed |-> FALSE]
    ELSE [raised |-> FALSE, err |-> "",
          rows |-> Append(messages,
                     [id |-> seqno["messages"] + 1,
                      name |-> data.name, email |-> data.email,
                      subject |-> data.subject, message |-> data.message,
                      sent_at |-> Some(utcnow_isoformat)]),
          seq |-> seqno["messages"] + 1,
          closed |-> TRUE]

\* ------------------------------------------------------------- the content
\* SAMPLE_NEWS, each post by its title and date ("YYYY-MM-DD" as code points)
SAMPLE_NEWS ==
    << [title |-> "IFS Invitational Youth Tournament showcases rising stars",
        date |-> <<50, 48, 50, 53, 45, 48, 56, 45, 48, 50>>],
       [title |-> "Copperbelt Open finals produce new champions",
        date |-> <<50, 48, 50, 53, 45, 48, 56, 45, 48, 52>>],
       [title |-> "Ladies trials set stage for 2024 All Africa Games",
        date |-> <<50, 48, 50, 51, 45, 49, 50, 45, 50, 55>>],
       [title |-> "MIKA Hotels invests in seventh international championship",
        date |-> <<50, 48, 50, 51, 45, 49, 48, 45, 50, 48>>],
       [title |-> "Junior champions crowned at Mike Mambwe Memorial",
        date |-> <<50, 48, 50, 51, 45, 48, 57, 45, 50, 48>>],
       [title |-> "Association recognised for successful 2024 AGM",
        date |-> <<50, 48, 50, 52, 45, 49, 50, 45, 49, 54>>] >>

\* A JSON string or number as Python holds it
Str(chars) == [type |-> "str", v |-> chars]
Num(n) == [type |-> "int", v |-> <<n>>]

\* DEFAULT_EVENTS, each event by its title and its "start" value
DEFAULT_EVENTS ==
    << [title |-> "National Championships",
        start |-> Some(Str(<<50, 48, 50, 53, 45, 48, 56, 45, 50, 48>>))],
       [title |-> "Youth Development Camp",
        start |-> Some(Str(<<50, 48, 50, 53, 45, 48, 57, 45, 49, 53>>))],
       [title |-> "Coaches Certification Course",
        start |-> Some(Str(<<50, 48, 50, 53, 45, 49, 48, 45, 48, 53>>))] >>

\* What json.load returns: a list of event objects, or one object (a dict)
List(items) == [type |-> "list", items |-> items]
Dict(obj) == [type |-> "dict", items |-> <<obj>>]

\* The text of a JSON document, as its tokens: [ ] , and whole objects
LBracket == [kind |-> "[", val |-> <<>>]
RBracket == [kind |-> "]", val |-> <<>>]
Comma == [kind |-> ",", val |-> <<>>]
Object(obj) == [kind |-> "value", val |-> <<obj>>]

Raise == [raised |-> TRUE, value |-> List(<<>>)]
Return(v) == [raised |-> FALSE, value |-> v]

\* json: the elements of an array after the first, up to the closing bracket
RECURSIVE ParseItems(_, _)
ParseItems(toks, acc) ==
    IF toks = <<>> THEN Raise
    ELSE IF Head(toks).kind = "]"
    THEN IF Len(toks) = 1 THEN Return(List(acc)) ELSE Raise
    ELSE IF Head(toks).kind = "," /\ Len(toks) >= 2 /\ toks[2].kind = "value"
    THEN ParseItems(SubSeq(toks, 3, Len(toks)), Append(acc, toks[2].val[1]))
    ELSE Raise

\* json.load(f): the document's value, or JSONDecodeError
json_load(text) ==
    IF text = <<>> THEN Raise
    ELSE IF text[1].kind = "value"
    THEN IF Len(text) = 1 THEN Return(Dict(text[1].val[1])) ELSE Raise
    ELSE IF text[1].kind = "[" /\ Len(text) >= 2
    THEN IF text[2].kind = "]"
         THEN IF Len(text) = 2 THEN Return(List(<<>>)) ELSE Raise
         ELSE IF text[2].kind = "value"
         THEN ParseItems(SubSeq(text, 3, Len(text)), <<text[2].val[1]>>)
         ELSE Raise
    ELSE Raise

\* `EVENTS = json.load(f) or DEFAULT_EVENTS`: an empty list replaced too
LoadEventsOrDefault(file) ==
    IF file.state = "present" /\ ~json_load(file.text).raised
       /\ json_load(file.text).value.items # <<>>
    THEN json_load(file.text).value
    ELSE List(DEFAULT_EVENTS)

\* The module-level load of data/events.json.  os.path.exists is false for
\* an absent file; open raises for an unreadable one, json.load for a
\* malformed one, and both are caught.
LoadEvents(file) ==
    IF file.state = "absent" THEN List(DEFAULT_EVENTS)
    ELSE IF file.state = "unreadable" THEN List(DEFAULT_EVENTS)
    ELSE IF json_load(file.text).raised THEN List(DEFAULT_EVENTS)
    ELSE json_load(file.text).value

RECURSIVE JoinObjects(_)
JoinObjects(items) ==
    IF Len(items) = 1 THEN <<Object(items[1])>>
    ELSE <<Object(items[1]), Comma>> \o JoinObjects(Tail(items))

\* jsonify(v): the JSON text of v
jsonify(v) ==
    IF v.type = "dict" THEN <<Object(v.items[1])>>
    ELSE IF v.items = <<>> THEN <<LBracket, RBracket>>
    ELSE <<LBracket>> \o JoinObjects(v.items) \o <<RBracket>>

\* x < y for two keys of one type
KeyLess(x, y) ==
    IF x.type = "int" THEN x.v[1] < y.v[1] ELSE StrLess(x.v, y.v)

\* one step of a stable sort: e goes after every element not greater than it
RECURSIVE Insert(_, _)
Insert(sortedList, e) ==
    IF sortedList = <<>> THEN <<e>>
    ELSE IF KeyLess(e.start[1], Head(sortedList).start[1])
    THEN <<e>> \o sortedList
    ELSE <<Head(sortedList)>> \o Insert(Tail(sortedList), e)

RECURSIVE SortByStart(_)
SortByStart(items) ==
    IF items = <<>> THEN <<>>
    ELSE Insert(SortByStart(SubSeq(items, 1, Len(items) - 1)), items[Len(items)])

\* sorted(..., reverse=True)
RECURSIVE InsertDescending(_, _)
InsertDescending(sortedList, e) ==
    IF sortedList = <<>> THEN <<e>>
    ELSE IF KeyLess(Head(sortedList).start[1], e.start[1])
    THEN <<e>> \o sortedList
    ELSE <<Head(sortedList)>> \o InsertDescending(Tail(sortedList), e)

RECURSIVE SortByStartDescending(_)
SortByStartDescending(items) ==
    IF items = <<>> THEN <<>>
    ELSE InsertDescending(SortByStartDescending(SubSeq(items, 1, Len(items) - 1)),
                          items[Len(items)])

sortedDescending(v) ==
    IF v.type = "dict" THEN Raise
    ELSE IF \E i \in 1..Len(v.items) : v.items[i].start = None THEN Raise
    ELSE IF \E i, j \in 1..Len(v.items) :
              v.items[i].start[1].type # v.items[j].start[1].type
    THEN Raise
    ELSE Return(List(SortByStartDescending(v.items)))

\* sorted(EVENTS, key=lambda e: e["start"]).  Iterating a dict yields its
\* keys, which are str and cannot be indexed by "start" (TypeError); an event
\* without "start" raises KeyError; keys of two types do not compare.
sorted(v) ==
    IF v.type = "dict" THEN Raise
    ELSE IF \E i \in 1..Len(v.items) : v.items[i].start = None THEN Raise
    ELSE IF \E i, j \in 1..Len(v.items) :
              v.items[i].start[1].type # v.items[j].start[1].type
    THEN Raise
    ELSE Return(List(SortByStart(v.items)))

\* list[:n]
Slice(list, n) == SubSeq(list, 1, IF Len(list) < n THEN Len(list) ELSE n)

\* ----------------------------------------------------------- the galleries
\* the name taken as it is, `f.endswith(...)` without lower()
lowerKeepsCase(s) == s

\* str.lower(), for the ASCII letters
lower(s) == [i \in 1..Len(s) |-> IF s[i] >= 65 /\ s[i] <= 90 THEN s[i] + 32 ELSE s[i]]

\* s.endswith(suffix)
endswith(s, suffix) ==
    /\ Len(s) >= Len(suffix)
    /\ SubSeq(s, Len(s) - Len(suffix) + 1, Len(s)) = suffix

\* ('.png', '.jpg', '.jpeg', '.gif')
IMAGE_SUFFIXES ==
    { <<46, 112, 110, 103>>, <<46, 106, 112, 103>>,
      <<46, 106, 112, 101, 103>>, <<46, 103, 105, 102>> }

\* f.lower().endswith(('.png', '.jpg', '.jpeg', '.gif'))
IsImageName(f) == \E suffix \in IMAGE_SUFFIXES : endswith(lower(f), suffix)

\* os.listdir(gallery_dir): the names in whatever order the file system
\* gives them; raises OSError when the directory is missing or unreadable
RECURSIVE Orderings(_)
Orderings(names) ==
    IF names = {} THEN {<<>>}
    ELSE UNION {{<<f>> \o rest : rest \in Orderings(names \ {f})} : f \in names}

Listings(dir) == Orderings(dir.names)

RECURSIVE InsertName(_, _)
InsertName(sortedNames, f) ==
    IF sortedNames = <<>> THEN <<f>>
    ELSE IF StrLess(f, Head(sortedNames)) THEN <<f>> \o sortedNames
    ELSE <<Head(sortedNames)>> \o InsertName(Tail(sortedNames), f)

\* files.sort()
RECURSIVE SortNames(_)
SortNames(names) ==
    IF names = <<>> THEN <<>>
    ELSE InsertName(SortNames(SubSeq(names, 1, Len(names) - 1)), names[Len(names)])

\* url_for('static', filename=f'images/<category>/{fname}')
url_for_static(category, fname) == [dir |-> <<"/static/images/", category>>, file |-> fname]

\* The body shared by the three gallery handlers: list, filter, sort, or []
\* when listing raises; then one URL per file.
image_urls(category, dir, listing) ==
    LET files == IF dir.state # "ok" THEN <<>>
                 ELSE SortNames(SelectSeq(listing, IsImageName))
    IN  [i \in 1..Len(files) |-> url_for_static(category, files[i])]

\* --------------------------------------------------------------- responses
NoBody == [template |-> "", ctx |-> <<>>]
NoResponse == [status |-> 0, location |-> "", flash |-> <<>>, body |-> NoBody]
\* redirect(url_for(...)) after flash(msg, category)
Redirect(loc, category, msg) ==
    [status |-> 302, location |-> loc, flash |-> <<category, msg>>, body |-> NoBody]
\* render_template(template, **ctx), and jsonify with template "json"
Page(template, ctx) ==
    [status |-> 200, location |-> "", flash |-> <<>>,
     body |-> [template |-> template, ctx |-> ctx]]
\* an exception that no handler catches
ServerError == [status |-> 500, location |-> "", flash |-> <<>>, body |-> NoBody]

\* ------------------------------------------------------------- form inputs
\* ""  " "  " Al "
Names == {Some(<<>>), Some(<<32>>), Some(<<32, 65, 108, 32>>)}
\* (no field)  "\t"  "a@b "
Emails == {None, Some(<<9>>), Some(<<97, 64, 98, 32>>)}
\* ""  "30"  " -07 "  "abc"  "9223372036854775808"
Ages == {Some(<<>>), Some(<<51, 48>>), Some(<<32, 45, 48, 55, 32>>),
         Some(<<97, 98, 99>>),
         Some(<<57, 50, 50, 51, 51, 55, 50, 48, 51, 54, 56, 53, 52, 55, 55, 53,
                56, 48, 56>>)}
\* "097 "
Phones == {Some(<<48, 57, 55, 32>>)}
\* (no field)  "hi"
Subjects == {None, Some(<<104, 105>>)}

MembershipForms ==
    [name : Names, email : Emails, phone : Phones, category : {None},
     address : {None}, age : Ages]
ContactForms ==
    [name : Names, email : Emails, subject : Subjects, message : {None}]

\* `form.get(k) if form.get(k) else None`, without strip()
NotStripped(opt) == IF Truthy(opt) THEN Some(opt[1]) ELSE None

\* form.get(k).strip() if form.get(k) else None
Stripped(opt) == IF Truthy(opt) THEN Some(strip(opt[1])) ELSE None

\* `not name`, the email left unchecked
MissingName(name, email) == ~Truthy(name)

\* not name or not email
Missing(name, email) == ~Truthy(name) \/ ~Truthy(email)

\* ------------------------------------------------------------ the handlers
\* python app.py: the module body runs, then app.run serves requests
Start ==
    /\ pc = "boot"
    /\ pc' = "serving"
    /\ EVENTS' = LoadEvents(eventsFile)
    /\ UNCHANGED <<tables, members, messages, seqno, openConns,
                   eventsFile, dirs, resp>>

\* POST /membership
PostMembership(form) ==
    /\ pc = "serving"
    /\ Len(members) < MaxRows
    /\ openConns < MaxOpenConns
    /\ LET name == Stripped(form.name)
           email == Stripped(form.email)
       IN  IF Missing(name, email)
           THEN /\ resp' = Redirect("/membership", "danger",
                                    <<"Name and email are required.">>)
                /\ UNCHANGED <<members, seqno, openConns>>
           ELSE LET age == IF Truthy(form.age) THEN int(form.age[1])
                           ELSE [raised |-> FALSE, value |-> Integer(FALSE, <<48>>)]
                IN  IF age.raised
                    THEN /\ resp' = Redirect("/membership", "danger",
                                      <<"Error saving your registration: ",
                                        "invalid literal for int() with base 10">>)
                         /\ UNCHANGED <<members, seqno, openConns>>
                    ELSE LET r == insert_member(
                                       [name |-> name, email |-> email,
                                        phone |-> form.phone,
                                        category |-> form.category,
                                        address |-> form.address,
                                        age |-> IF Truthy(form.age)
                                                THEN Some(age.value) ELSE None])
                            IN  /\ members' = r.rows
                                /\ seqno' = [seqno EXCEPT !["members"] = r.seq]
                                /\ openConns' = IF r.closed THEN openConns
                                                ELSE openConns + 1
                                /\ resp' = IF r.raised
                                     THEN Redirect("/membership", "danger",
                                            <<"Error saving your registration: ",
                                              r.err>>)
                                     ELSE Redirect("/membership", "success",
                                            <<"Thank you for registering! We will contact you soon.">>)
    /\ UNCHANGED <<pc, tables, messages, eventsFile, EVENTS, dirs>>

\* GET /membership
GetMembership ==
    /\ pc = "serving"
    /\ resp' = Page("membership.html", <<>>)
    /\ UNCHANGED <<pc, tables, members, messages, seqno, openConns,
                   eventsFile, EVENTS, dirs>>

\* POST /contact
PostContact(form) ==
    /\ pc = "serving"
    /\ Len(messages) < MaxRows
    /\ openConns < MaxOpenConns
    /\ LET name == Stripped(form.name)
           email == Stripped(form.email)
       IN  IF Missing(name, email)
           THEN /\ resp' = Redirect("/contact", "danger",
                                    <<"Name and email are required.">>)
                /\ UNCHANGED <<messages, seqno, openConns>>
           ELSE LET r == insert_message(
                              [name |-> name, email |-> email,
                               subject |-> form.subject,
                               message |-> form.message])
                   IN  /\ messages' = r.rows
                       /\ seqno' = [seqno EXCEPT !["messages"] = r.seq]
                       /\ openConns' = IF r.closed THEN openConns
                                       ELSE openConns + 1
                       /\ resp' = IF r.raised
                            THEN Redirect("/contact", "danger",
                                   <<"Error sending your message: ", r.err>>)
                            ELSE Redirect("/contact", "success",
                                   <<"Thank you for contacting us. We will respond shortly.">>)
    /\ UNCHANGED <<pc, tables, members, eventsFile, EVENTS, dirs>>

\* GET /contact
GetContact ==
    /\ pc = "serving"
    /\ resp' = Page("contact.html", <<>>)
    /\ UNCHANGED <<pc, tables, members, messages, seqno, openConns,
                   eventsFile, EVENTS, dirs>>

\* The interpreter reclaims a connection object that no frame refers to any
\* more; sqlite3 closes the database handle when the object is deallocated.
Finalize ==
    /\ openConns > 0
    /\ openConns' = openConns - 1
    /\ UNCHANGED <<pc, tables, members, messages, seqno,
                   eventsFile, EVENTS, dirs, resp>>

\* GET /
index ==
    /\ pc = "serving"
    /\ LET news_preview == Slice(SAMPLE_NEWS, 3)
           s == sorted(EVENTS)
           events_sorted == IF s.raised THEN EVENTS ELSE s.value
       IN  IF events_sorted.type = "dict"
           THEN resp' = ServerError
           ELSE resp' = Page("index.html",
                             [news |-> news_preview,
                              events |-> IF events_sorted.items # <<>>
                                         THEN Slice(events_sorted.items, 6)
                                         ELSE <<>>])
    /\ UNCHANGED <<pc, tables, members, messages, seqno, openConns,
                   eventsFile, EVENTS, dirs>>

\* GET /events
events ==
    /\ pc = "serving"
    /\ resp' = Page("events.html", EVENTS)
    /\ UNCHANGED <<pc, tables, members, messages, seqno, openConns,
                   eventsFile, EVENTS, dirs>>

\* GET /api/events
api_events ==
    /\ pc = "serving"
    /\ resp' = Page("json", jsonify(EVENTS))
    /\ UNCHANGED <<pc, tables, members, messages, seqno, openConns,
                   eventsFile, EVENTS, dirs>>

\* GET /veterans
veterans_gallery ==
    /\ pc = "serving"
    /\ \E listing \in Listings(dirs["veterans"]) :
         resp' = Page("veterans.html",
                      image_urls("veterans", dirs["veterans"], listing))
    /\ UNCHANGED <<pc, tables, members, messages, seqno, openConns,
                   eventsFile, EVENTS, dirs>>

\* GET /juniors
juniors_gallery ==
    /\ pc = "serving"
    /\ \E listing \in Listings(dirs["juniors"]) :
         resp' = Page("juniors.html",
                      image_urls("juniors", dirs["juniors"], listing))
    /\ UNCHANGED <<pc, tables, members, messages, seqno, openConns,
                   eventsFile, EVENTS, dirs>>

\* GET /seniors
seniors_gallery ==
    /\ pc = "serving"
    /\ \E listing \in Listings(dirs["seniors"]) :
         resp' = Page("seniors.html",
                      image_urls("seniors", dirs["seniors"], listing))
    /\ UNCHANGED <<pc, tables, members, messages, seqno, openConns,
                   eventsFile, EVENTS, dirs>>

\* ------------------------------------------------------- the storage system
\* database.db is what an earlier run left: nothing, or the schema of init_db
InitDb ==
    /\ pc = "boot"
    /\ tables \in {{}, init_db({})}
    /\ members = <<>>
    /\ messages = <<>>
    /\ seqno = [t \in AllTables |-> 0]
    /\ openConns = 0
    /\ eventsFile = [state |-> "absent", text |-> <<>>]
    /\ EVENTS = List(<<>>)
    /\ dirs = [c \in {"veterans", "juniors", "seniors"} |->
                 [state |-> "absent", names |-> {}]]
    /\ resp = NoResponse

NextDb ==
    \/ Start
    \/ \E form \in MembershipForms : PostMembership(form)
    \/ GetMembership
    \/ \E form \in ContactForms : PostContact(form)
    \/ GetContact
    \/ Finalize

SpecDb == InitDb /\ [][NextDb]_vars

\* ------------------------------------------------------- the content system
\* "2025-09-15", "2025-08-20", "2025-10-05": well-formed; no "start" key
DatedEvents ==
    { [title |-> "Open",
       start |-> Some(Str(<<50, 48, 50, 53, 45, 48, 57, 45, 49, 53>>))],
      [title |-> "Camp",
       start |-> Some(Str(<<50, 48, 50, 53, 45, 48, 56, 45, 50, 48>>))],
      [title |-> "Course",
       start |-> Some(Str(<<50, 48, 50, 53, 45, 49, 48, 45, 48, 53>>))],
      [title |-> "TBA", start |-> None] }
\* "2025-9-1": not zero-padded; 20250901: a number; "2025-08-20"
OddEvents ==
    { [title |-> "Cup", start |-> Some(Str(<<50, 48, 50, 53, 45, 57, 45, 49>>))],
      [title |-> "Gala", start |-> Some(Num(20250901))],
      [title |-> "Camp",
       start |-> Some(Str(<<50, 48, 50, 53, 45, 48, 56, 45, 50, 48>>))] }

SeqsUpTo(S, n) == UNION {[1..k -> S] : k \in 0..n}

EventLists == SeqsUpTo(DatedEvents, MaxEvents) \cup SeqsUpTo(OddEvents, MaxOddEvents)

\* The text of a file holding the array `items`
ArrayText(items) ==
    <<LBracket>>
    \o [i \in 1..(2 * Len(items) - 1) |->
          IF i % 2 = 1 THEN Object(items[(i + 1) \div 2]) ELSE Comma]
    \o <<RBracket>>

\* data/events.json as the deployment left it: a whole array, an array cut
\* short, an array with a comma before the bracket, one object, or no file;
\* readable or not.
EventsFiles ==
    {[state |-> "absent", text |-> <<>>]}
    \cup {[state |-> "present", text |-> ArrayText(l)] : l \in EventLists}
    \cup {[state |-> "present",
           text |-> SubSeq(ArrayText(l), 1, Len(ArrayText(l)) - 1)] :
             l \in SeqsUpTo(OddEvents, MaxOddEvents)}
    \cup {[state |-> "present",
           text |-> SubSeq(ArrayText(l), 1, Len(ArrayText(l)) - 1)
                    \o <<Comma, RBracket>>] :
             l \in SeqsUpTo(OddEvents, MaxOddEvents)}
    \cup {[state |-> "present", text |-> <<Object(e)>>] : e \in OddEvents}
    \cup {[state |-> "unreadable", text |-> ArrayText(l)] :
             l \in SeqsUpTo(OddEvents, MaxOddEvents)}

InitContent ==
    /\ pc = "boot"
    /\ tables = {}
    /\ members = <<>>
    /\ messages = <<>>
    /\ seqno = [t \in AllTables |-> 0]
    /\ openConns = 0
    /\ eventsFile \in EventsFiles
    /\ EVENTS = List(<<>>)
    /\ dirs = [c \in {"veterans", "juniors", "seniors"} |->
                 [state |-> "absent", names |-> {}]]
    /\ resp = NoResponse

NextContent ==
    \/ Start
    \/ index
    \/ events
    \/ api_events

SpecContent == InitContent /\ [][NextContent]_vars

\* ------------------------------------------------------- the gallery system
Categories == {"veterans", "juniors", "seniors"}

\* "b.png"  "a.jpg"  "c.txt"  "D.GIF"  "E.Jpeg"  "jpeg"
FileNames ==
    { <<98, 46, 112, 110, 103>>, <<97, 46, 106, 112, 103>>,
      <<99, 46, 116, 120, 116>>, <<68, 46, 71, 73, 70>>,
      <<69, 46, 74, 112, 101, 103>>, <<106, 112, 101, 103>> }

\* static/images/<category>: missing, not listable, or holding some files;
\* MaxFiles bounds the files under static/images as a whole
Directories ==
    {[state |-> "absent", names |-> {}], [state |-> "denied", names |-> {}]}
    \cup {[state |-> "ok", names |-> n] :
            n \in {x \in SUBSET FileNames : Cardinality(x) <= MaxFiles}}

InitGallery ==
    /\ pc = "boot"
    /\ tables = {}
    /\ members = <<>>
    /\ messages = <<>>
    /\ seqno = [t \in AllTables |-> 0]
    /\ openConns = 0
    /\ eventsFile = [state |-> "absent", text |-> <<>>]
    /\ EVENTS = List(<<>>)
    /\ dirs \in [Categories -> Directories]
    /\ Cardinality(dirs["veterans"].names) + Cardinality(dirs["juniors"].names)
          + Cardinality(dirs["seniors"].names) <= MaxFiles
    /\ resp = NoResponse

NextGallery ==
    \/ Start
    \/ veterans_gallery
    \/ juniors_gallery
    \/ seniors_gallery

SpecGallery == InitGallery /\ [][NextGallery]_vars

\* ------------------------------------------------- properties of the storage
\* A form field that is absent, empty or made of whitespace only.
Blank(opt) == opt = None \/ \A i \in 1..Len(opt[1]) : IsSpace(opt[1][i])

\* The field with its leading and trailing whitespace removed.
Trimmed(opt) ==
    LET s == opt[1]
        first == CHOOSE i \in 1..Len(s) :
                    ~IsSpace(s[i]) /\ \A j \in 1..(i - 1) : IsSpace(s[j])
        last == CHOOSE i \in 1..Len(s) :
                    ~IsSpace(s[i]) /\ \A j \in (i + 1)..Len(s) : IsSpace(s[j])
    IN  SubSeq(s, first, last)

AgeAbsent(form) == form.age = None \/ form.age[1] = <<>>
AgeIsInteger(form) == ~AgeAbsent(form) /\ ~int(form.age[1]).raised
AgeNotInteger(form) == ~AgeAbsent(form) /\ int(form.age[1]).raised

ValidMembership(form) ==
    /\ ~Blank(form.name)
    /\ ~Blank(form.email)
    /\ AgeAbsent(form) \/ AgeIsInteger(form)

InvalidMembership(form) ==
    Blank(form.name) \/ Blank(form.email) \/ AgeNotInteger(form)

ValidContact(form) == ~Blank(form.name) /\ ~Blank(form.email)

\* C1: a POST to /membership with a non-blank name and email and an age that
\* is absent or an integer adds exactly one Member row holding the submitted
\* values (name and email trimmed, age as an integer), with a joined_at
\* timestamp, and answers with the success message.
C1_ValidMembershipCreatesRow ==
    [][\A form \in MembershipForms :
         (PostMembership(form) /\ ValidMembership(form)) =>
            /\ Len(members') = Len(members) + 1
            /\ SubSeq(members', 1, Len(members)) = members
            /\ LET row == members'[Len(members')]
               IN  /\ row.name = Some(Trimmed(form.name))
                   /\ row.email = Some(Trimmed(form.email))
                   /\ row.phone = form.phone
                   /\ row.category = form.category
                   /\ row.address = form.address
                   /\ row.age = IF AgeAbsent(form) THEN None
                                ELSE Some(int(form.age[1]).value)
                   /\ row.joined_at # None
            /\ resp'.status = 302
            /\ resp'.flash[1] = "success"]_vars

\* C2: whenever a route handler can run, the tables members and messages exist.
C2_TablesExistWhenServing == pc = "serving" => tables = AllTables

\* C3: a POST to /membership with a blank name, a blank email or a
\* non-integer age leaves the members table as it was, does not fail the
\* handler, and answers with a failure message and a redirect to the form.
C3_InvalidMembershipWritesNothing ==
    [][\A form \in MembershipForms :
         (PostMembership(form) /\ InvalidMembership(form)) =>
            /\ members' = members
            /\ seqno' = seqno
            /\ resp'.status = 302
            /\ resp'.location = "/membership"
            /\ resp'.flash[1] = "danger"]_vars

\* a non-integer age was refused while the table held a row, which is kept
C3_Witness ==
    /\ Len(members) = 1
    /\ resp = Redirect("/membership", "danger",
                       <<"Error saving your registration: ",
                         "invalid literal for int() with base 10">>)

\* C4: every row of members and of messages has a non-empty name and a
\* non-empty email.
C4_RowsHaveNameAndEmail ==
    /\ \A i \in 1..Len(members) :
         /\ members[i].name # None /\ members[i].name[1] # <<>>
         /\ members[i].email # None /\ members[i].email[1] # <<>>
    /\ \A i \in 1..Len(messages) :
         /\ messages[i].name # None /\ messages[i].name[1] # <<>>
         /\ messages[i].email # None /\ messages[i].email[1] # <<>>

\* both tables hold rows, written after refused submissions were possible
C4_Witness == Len(members) >= 1 /\ Len(messages) >= 1

\* C5: each valid POST to /contact adds one ContactMessage row whose id is
\* greater than the id of every row written before, so two valid POSTs in a
\* row leave two distinct rows with increasing ids.
C5_ContactIdsIncrease ==
    [][\A form \in ContactForms :
         (PostContact(form) /\ ValidContact(form)) =>
            /\ Len(messages') = Len(messages) + 1
            /\ SubSeq(messages', 1, Len(messages)) = messages
            /\ \A i \in 1..Len(messages) :
                 messages'[Len(messages')].id > messages[i].id]_vars

\* C10: no connection that a storage operation opened is still open after
\* the operation has ended, whether its statement succeeded or raised.
C10_ConnectionsReleased == openConns = 0

\* ------------------------------------------------- properties of the content
\* The document is an array: [ ] around objects separated by single commas.
IsArrayText(text) ==
    /\ Len(text) >= 2
    /\ text[1].kind = "["
    /\ text[Len(text)].kind = "]"
    /\ \/ Len(text) = 2
       \/ /\ Len(text) % 2 = 1
          /\ \A i \in 2..(Len(text) - 1) :
               text[i].kind = IF i % 2 = 0 THEN "value" ELSE ","

\* The elements of an array document, in order.
ArrayItems(text) == [i \in 1..((Len(text) - 1) \div 2) |-> text[2 * i].val[1]]

IsJsonText(text) ==
    IsArrayText(text) \/ (Len(text) = 1 /\ text[1].kind = "value")

FileUnusable ==
    eventsFile.state \in {"absent", "unreadable"} \/ ~IsJsonText(eventsFile.text)

FileHoldsArray == eventsFile.state = "present" /\ IsArrayText(eventsFile.text)

ApiEventsServed == resp.status = 200 /\ resp.body.template = "json"

\* C6: once the process serves, the events list is what the load at start
\* made of the file: the three built-in events when the file is absent,
\* unreadable or not JSON, the file's array itself (same elements, same
\* order) when it holds one; and /api/events answers with that list.
C6_EventsLoadedOrDefault ==
    pc = "serving" =>
      /\ FileUnusable => EVENTS = List(DEFAULT_EVENTS)
      /\ FileHoldsArray => EVENTS = List(ArrayItems(eventsFile.text))
      /\ (ApiEventsServed /\ (FileUnusable \/ FileHoldsArray)) =>
            /\ IsArrayText(resp.body.ctx)
            /\ ArrayItems(resp.body.ctx) = EVENTS.items

\* /api/events has served the array of a file that holds several events
C6_Witness ==
    /\ ApiEventsServed
    /\ FileHoldsArray
    /\ Len(ArrayItems(eventsFile.text)) >= 2
    /\ EVENTS.items # DEFAULT_EVENTS

IndexServed == resp.status = 200 /\ resp.body.template = "index.html"

\* "YYYY-MM-DD": ten characters, digits around two hyphens
WellFormedDate(val) ==
    /\ val.type = "str"
    /\ Len(val.v) = 10
    /\ \A i \in 1..10 : IF i \in {5, 8} THEN val.v[i] = 45 ELSE IsDigit(val.v[i])

HasWellFormedStart(e) == e.start # None /\ WellFormedDate(e.start[1])

\* The day a well-formed date names, as the number YYYYMMDD.
DateNumber(chars) ==
    LET d(i) == chars[i] - 48
    IN  (d(1) * 1000 + d(2) * 100 + d(3) * 10 + d(4)) * 10000
        + (d(6) * 10 + d(7)) * 100 + d(9) * 10 + d(10)

StartNumber(e) == DateNumber(e.start[1].v)

Occurrences(list, e) == Cardinality({i \in 1..Len(list) : list[i] = e})

\* `preview` holds the n soonest-starting events of `all`, soonest first.
SoonestFirst(preview, all, n) ==
    /\ Len(preview) = IF Len(all) < n THEN Len(all) ELSE n
    /\ \A i \in 1..Len(preview) :
         Occurrences(preview, preview[i]) <= Occurrences(all, preview[i])
    /\ \A i \in 1..(Len(preview) - 1) :
         StartNumber(preview[i]) <= StartNumber(preview[i + 1])
    /\ \A j \in 1..Len(all) :
         Occurrences(preview, all[j]) < Occurrences(all, all[j]) =>
            \A i \in 1..Len(preview) :
               StartNumber(preview[i]) <= StartNumber(all[j])

\* C7: the event preview of the home page has at most 6 items, and when
\* every event has a well-formed start date it is the (up to) 6 events that
\* start soonest, in ascending order of start date.
C7_EventPreview ==
    IndexServed =>
      /\ Len(resp.body.ctx.events) <= 6
      /\ (EVENTS.type = "list"
          /\ \A i \in 1..Len(EVENTS.items) : HasWellFormedStart(EVENTS.items[i]))
         => SoonestFirst(resp.body.ctx.events, EVENTS.items, 6)

\* the home page was served from more than 6 dated events that the file does
\* not list in order of date
C7_Witness ==
    /\ IndexServed
    /\ Len(EVENTS.items) > 6
    /\ \A i \in 1..Len(EVENTS.items) : HasWellFormedStart(EVENTS.items[i])
    /\ StartNumber(EVENTS.items[1]) > StartNumber(EVENTS.items[7])
    /\ Len(resp.body.ctx.events) = 6

\* C8: the news preview of the home page is the 3 posts of the news list
\* with the latest dates.
C8_NewsPreviewMostRecent ==
    IndexServed =>
      /\ Len(resp.body.ctx.news) = 3
      /\ \A i \in 1..3 : \E j \in 1..Len(SAMPLE_NEWS) :
            resp.body.ctx.news[i] = SAMPLE_NEWS[j]
      /\ \A j \in 1..Len(SAMPLE_NEWS) :
            (\A i \in 1..3 : resp.body.ctx.news[i] # SAMPLE_NEWS[j]) =>
               \A i \in 1..3 :
                  DateNumber(SAMPLE_NEWS[j].date)
                     <= DateNumber(resp.body.ctx.news[i].date)

\* ----------------------------------------------- properties of the galleries
\* "png", "jpg", "jpeg", "gif"
Extensions ==
    { <<112, 110, 103>>, <<106, 112, 103>>, <<106, 112, 101, 103>>,
      <<103, 105, 102>> }

\* The name ends in `ending`, letters compared without regard to case.
EndsIn(name, ending) ==
    /\ Len(name) >= Len(ending)
    /\ \A i \in 1..Len(ending) :
         LET c == name[Len(name) - Len(ending) + i]
         IN  c = ending[i] \/ (ending[i] >= 97 /\ ending[i] <= 122 /\ c = ending[i] - 32)

EndsInExtension(name) == \E e \in Extensions : EndsIn(name, e)
EndsInDotExtension(name) == \E e \in Extensions : EndsIn(name, <<46>> \o e)

\* a comes before b in lexicographic order
LexBefore(a, b) ==
    \E k \in 1..Len(b) :
       /\ \A i \in 1..(k - 1) : i <= Len(a) /\ a[i] = b[i]
       /\ (k = Len(a) + 1 \/ (k <= Len(a) /\ a[k] < b[k]))

\* The response lists exactly the names `wanted` of the directory, as URLs of
\* the category, in lexicographic order of name; nothing when the directory
\* is missing or cannot be listed.
GalleryLists(category, Wanted(_)) ==
    (resp.status = 200 /\ resp.body.template = category \o ".html") =>
       LET urls == resp.body.ctx
           dir == dirs[category]
       IN  IF dir.state # "ok" THEN urls = <<>>
           ELSE /\ {urls[i].file : i \in 1..Len(urls)}
                      = {f \in dir.names : Wanted(f)}
                /\ Len(urls) = Cardinality({f \in dir.names : Wanted(f)})
                /\ \A i \in 1..Len(urls) :
                      urls[i].dir = <<"/static/images/", category>>
                /\ \A i \in 1..(Len(urls) - 1) :
                      LexBefore(urls[i].file, urls[i + 1].file)

\* C9 as stated: each gallery lists the entries whose name ends, without
\* regard to case, in png, jpg, jpeg or gif.
C9_GalleryListsExtensionEndings ==
    \A c \in Categories : GalleryLists(c, EndsInExtension)

\* C9 as amended: each gallery lists the entries whose name ends, without
\* regard to case, in .png, .jpg, .jpeg or .gif (the dot included), in
\* lexicographic order of name, and lists nothing when the directory is
\* missing or cannot be listed.
C9_GalleryListsDotExtensionEndings ==
    \A c \in Categories : GalleryLists(c, EndsInDotExtension)

\* the veterans page was served from {"b.png", "a.jpg", "c.txt"}: a.jpg, b.png
C9_Witness ==
    /\ resp.status = 200
    /\ resp.body.template = "veterans.html"
    /\ dirs["veterans"] =
         [state |-> "ok",
          names |-> { <<98, 46, 112, 110, 103>>, <<97, 46, 106, 112, 103>>,
                      <<99, 46, 116, 120, 116>> }]
    /\ resp.body.ctx =
         << [dir |-> <<"/static/images/", "veterans">>,
             file |-> <<97, 46, 106, 112, 103>>],
            [dir |-> <<"/static/images/", "veterans">>,
             file |-> <<98, 46, 112, 110, 103>>] >>
====
